---- MODULE Spec2Model ----
(***************************************************************************)
(* Job orchestration of the deployed OCR service                           *)
(* (src/services/ocr_service_deploy/ocr_service.py).                       *)
(*                                                                         *)
(* StatusStore  = Redis keys doc:<document_id> and hash:<sha256>, each     *)
(*                with a time to live;                                     *)
(* ResultStore  = the MongoDB collection `documents`;                      *)
(* WorkerPool   = process_executor (ProcessPoolExecutor);                  *)
(* submit       = upload_pdf, peek_status = check_processing_status,       *)
(* fetch_result = get_processing_result.                                   *)
(*                                                                         *)
(* Every Redis or MongoDB call may raise (connection error); which call of *)
(* a step raises is an input of the step.  Code between two awaits of a    *)
(* coroutine runs as one step of the event loop.                           *)
(*                                                                         *)
(* The repository's two other services have their own state and their own  *)
(* specifications: the earlier OCR service                                 *)
(* (src/services/ocr_service/ocr_service.py, EarlierSpec) and the          *)
(* management service (src/services/manage_service/app.py, ManageSpec).    *)
(***************************************************************************)
EXTENDS Integers, Sequences, FiniteSets, Bags, TLC

VARIABLES doc, idx, mongo, pending, tasks, poolq, broken, fetching, faults, last

(* the earlier service (src/services/ocr_service/ocr_service.py): the      *)
(* DynamoDB table, the background tasks, the uuid4 values drawn, the JSON  *)
(* files under output/ and the last response                               *)
VARIABLES table, background, uuids, output, reply

(* the management service (src/services/manage_service/app.py): the S3     *)
(* bucket, the requests being handled and the last response                *)
VARIABLES bucket, requests, response

dvars == <<doc, idx, mongo, pending, tasks, poolq, broken, fetching, faults, last>>
evars == <<table, background, uuids, output, reply>>
mvars == <<bucket, requests, response>>

vars == <<dvars, evars, mvars>>

----------------------------------------------------------------------------
(* Bounds of the model *)

MaxTasks == 2          \* uploads accepted for processing, of all documents
MaxDocTasks == 1       \* uploads accepted for processing, of the one document
MaxLiveTasks == 2      \* the same, while no store call raises
MaxPoolTasks == 2      \* uploads accepted for processing, sharing the pool
MaxDigestTasks == 2    \* uploads accepted for processing, of any file
MaxEarlierUploads == 2 \* uploads received by the earlier service
MaxManageUploads == 2  \* uploads being handled by the management service
Capacity == 1          \* os.cpu_count() of the host: workers of process_executor
MaxFaults == 2         \* Redis and MongoDB calls that raise

(* Program constants *)

TTL == 86400           \* seconds of life of every Redis key written
PreviewLimit == 500    \* characters of result kept in result_preview

TickSeconds == TTL          \* granularity of the passage of time

----------------------------------------------------------------------------
(* Inputs *)

Jobs == {"a", "b"}                     \* document_id form values
NoId == ""                             \* an empty document_id form value
EmptyBytes == << >>
PdfBytes == <<37, 80, 68, 70>>         \* b"%PDF"

LowerPdf == <<"d", ".", "p", "d", "f">>
UpperPdf == <<"S", ".", "P", "D", "F">>
TextFile == <<"d", ".", "t", "x", "t">>

Request(j, b, f) == [job |-> j, bytes |-> b, filename |-> f]

(* the upload requests of the clients *)
Uploads ==
    {Request("a", PdfBytes, LowerPdf), Request("a", EmptyBytes, LowerPdf),
     Request("b", PdfBytes, UpperPdf), Request("b", PdfBytes, TextFile),
     Request(NoId, PdfBytes, LowerPdf)}

(* the document the read path is asked about, and the uploads of its file *)
QueryJobs == {"a"}
QueryUploads == {r \in Uploads : r.job \in QueryJobs /\ r.bytes = PdfBytes}

ShortText == <<"h", "i", " ", "y", "o">>
LongText == [i \in 1..(PreviewLimit + 1) |-> "x"]
Texts == {ShortText, LongText}
Ellipsis == <<".", ".", ".">>

EngineError == "engine error"          \* str(e) of an exception of the engine
PoolError == "process pool broken"     \* str(e) of BrokenProcessPool
RedisError == "redis error"            \* str(e) of a redis.RedisError

(* hashlib.sha256(file_bytes).hexdigest(): a digest is a value of its own   *)
(* kind, equal for equal bytes and (collision resistance) different for     *)
(* different bytes                                                          *)
Sha256Mut(b) == <<"sha256", Len(b) - Len(b)>>
Sha256(b) == <<"sha256", b>>

(* str.lower() on the characters of the file names *)
LowerChar(c) ==
    CASE c = "S" -> "s" [] c = "P" -> "p" [] c = "D" -> "d" [] c = "F" -> "f"
      [] OTHER -> c

Lower(str) == [k \in 1..Len(str) |-> LowerChar(str[k])]

EndsWith(str, suffix) ==
    /\ Len(str) >= Len(suffix)
    /\ SubSeq(str, Len(str) - Len(suffix) + 1, Len(str)) = suffix

(* file.filename.lower().endswith('.pdf') *)
IsPdfName(f) == EndsWith(Lower(f), <<".", "p", "d", "f">>)

----------------------------------------------------------------------------
(* Redis: setex, get, exists *)

Setex(store, key, seconds, value) ==
    [k \in DOMAIN store \cup {key} |->
        IF k = key THEN [v |-> value, ttl |-> seconds] ELSE store[k]]

Exists(store, key) == key \in DOMAIN store

(* MongoDB: update_one({"document_id": id}, {"$set": doc}, upsert=True) on  *)
(* a collection with a unique index on document_id                          *)
UpsertMut(coll, document_id, mongo_doc) ==
    [k \in DOMAIN coll \cup {document_id} |->
        IF k = document_id /\ k \notin DOMAIN coll THEN mongo_doc ELSE coll[k]]
Upsert(coll, document_id, mongo_doc) ==
    [k \in DOMAIN coll \cup {document_id} |->
        IF k = document_id THEN mongo_doc ELSE coll[k]]

HasHashMut(data) == "filename" \in DOMAIN data
HasHash(data) == "document_hash" \in DOMAIN data

(* update_document_status(document_id, status_data) where the failAt-th    *)
(* Redis call raises (0: none does).  Returns the stores and the return     *)
(* value of the function.                                                   *)
update_document_statusMut(d, i, document_id, data, failAt) ==
    LET hashCall == IF HasHash(data) THEN 1 ELSE 0
        docCall == hashCall + 1
        owner == IF hashCall = 1 /\ Exists(i, data.document_hash)
                 THEN i[data.document_hash].v ELSE document_id
        i1 == IF hashCall = 1 /\ failAt # 1
              THEN Setex(i, data.document_hash, TTL, owner)
              ELSE i
        raised == failAt \in 1..docCall
        d1 == IF raised THEN d ELSE Setex(d, owner, TTL, data)
    IN  [doc |-> d1, idx |-> i1, ok |-> ~raised]
update_document_status(d, i, document_id, data, failAt) ==
    LET hashCall == IF HasHash(data) THEN 1 ELSE 0
        docCall == hashCall + 1
        i1 == IF hashCall = 1 /\ failAt # 1
              THEN Setex(i, data.document_hash, TTL, document_id)
              ELSE i
        raised == failAt \in 1..docCall
        d1 == IF raised THEN d ELSE Setex(d, document_id, TTL, data)
    IN  [doc |-> d1, idx |-> i1, ok |-> ~raised]

(* does update_document_status raise to its caller?  It catches every      *)
(* exception and returns False.                                            *)
UpdateRaisesMut(u) == ~u.ok
UpdateRaises(u) == FALSE

(* get_document_status(document_id); ok = the Redis call did not raise *)
NoStatus == [status |-> "none"]
get_document_status(d, document_id, ok) ==
    IF ok /\ Exists(d, document_id) THEN d[document_id].v ELSE NoStatus

(* check_document_exists_by_id(document_id) *)
check_document_exists_by_id(d, document_id, ok) ==
    IF ok THEN Exists(d, document_id) ELSE FALSE

----------------------------------------------------------------------------
(* Status records written by the orchestrator *)

QueuedData(h, f) == [status |-> "queued", document_hash |-> h, filename |-> f]
ProcessingDataMut(h) ==
    LET stored == {j \in DOMAIN doc : "filename" \in DOMAIN doc[j].v}
    IN  IF stored # {}
        THEN [status |-> "processing", document_hash |-> h,
              filename |-> doc[CHOOSE j \in stored : TRUE].v.filename]
        ELSE [status |-> "processing", document_hash |-> h]
ProcessingData(h) == [status |-> "processing", document_hash |-> h]
CompletedData(h, text) ==
    [status |-> "completed", document_hash |-> h, result |-> text]
FailedDataMut(h, err) ==
    [status |-> "failed", document_hash |-> h, error |-> "failed"]
FailedData(h, err) == [status |-> "failed", document_hash |-> h, error |-> err]

(* result['result'][:500] + '...' if len(result['result']) > 500 else ... *)
Preview(text) ==
    IF Len(text) > PreviewLimit
    THEN SubSeq(text, 1, PreviewLimit) \o Ellipsis
    ELSE text

PreviewData(text) == [status |-> "completed", result_preview |-> Preview(text)]

(* len(text.split()): the number of places where a word starts *)
WordCount(text) ==
    Cardinality({k \in 1..Len(text) :
                    text[k] # " " /\ (k = 1 \/ text[k - 1] = " ")})

MongoDocMut(document_id, text) ==
    [document_id |-> document_id, combined_text |-> Preview(text),
     status |-> "completed",
     word_count |-> WordCount(text), character_count |-> Len(text)]
MongoDoc(document_id, text) ==
    [document_id |-> document_id, combined_text |-> text, status |-> "completed",
     word_count |-> WordCount(text), character_count |-> Len(text)]

----------------------------------------------------------------------------
(* Background tasks *)

NoOut == [status |-> "none"]
Outcomes == {[status |-> "completed", result |-> t] : t \in Texts}
            \cup {[status |-> "failed", error |-> EngineError]}
Raised == [status |-> "raised", error |-> PoolError]

(* asyncio.create_task schedules the coroutine: it has not run a step when *)
(* create_task returns                                                     *)
NewTaskMut(j, b, h) ==
    [job |-> j, bytes |-> b, hash |-> h, pc |-> "pooled", out |-> NoOut,
     upsert |-> "none", term |-> "none", tw |-> 0]
NewTask(j, b, h) ==
    [job |-> j, bytes |-> b, hash |-> h, pc |-> "created", out |-> NoOut,
     upsert |-> "none", term |-> "none", tw |-> 0]

TaskIds == 1..Len(tasks)
Running == {i \in TaskIds : tasks[i].pc = "running"}
TasksOf(j) == {i \in TaskIds : tasks[i].job = j}

(* a coroutine that has returned holds no outcome any more *)
DoneMut(t) ==
    [t EXCEPT !.pc = IF t.term = "failed" THEN "created" ELSE "done",
              !.out = NoOut]
Done(t) == [t EXCEPT !.pc = "done", !.out = NoOut]

(* History kept with a task: upsert, how its update_one ended (none, ok,    *)
(* raised); term, the first terminal status it stored; tw, the number of   *)
(* terminal records it stored.                                             *)
Wrote(t, u, status) ==
    IF u.ok
    THEN [t EXCEPT !.term = IF t.term = "none" THEN status ELSE t.term,
                   !.tw = t.tw + 1]
    ELSE t

NoCall == [op |-> "none"]

(* the earlier service and the management service after start-up *)
EarlierInit ==
    /\ table = {}
    /\ background = << >>
    /\ uuids = 0
    /\ output = {}
    /\ reply = NoCall

ManageInit ==
    /\ bucket = << >>
    /\ requests = EmptyBag
    /\ response = NoCall

Init ==
    /\ doc = << >>
    /\ idx = << >>
    /\ mongo = << >>
    /\ pending = EmptyBag
    /\ tasks = << >>
    /\ poolq = << >>
    /\ broken = FALSE
    /\ fetching = {}
    /\ faults = 0
    /\ last = NoCall
    /\ EarlierInit
    /\ ManageInit

(* n calls of the step raise *)
Raise(n) ==
    /\ faults + n <= MaxFaults
    /\ faults' = faults + n

One(b) == IF b THEN 1 ELSE 0

(* a step of the background, which answers no client *)
Quiet == last' = NoCall

----------------------------------------------------------------------------
(* Passage of time: Redis drops every key whose time to live has run out *)

Aged(store) ==
    LET live == {k \in DOMAIN store : store[k].ttl > TickSeconds}
    IN  [k \in live |-> [store[k] EXCEPT !.ttl = store[k].ttl - TickSeconds]]

Tick ==
    /\ DOMAIN doc \cup DOMAIN idx # {}
    /\ doc' = Aged(doc)
    /\ idx' = Aged(idx)
    /\ Quiet
    /\ UNCHANGED <<mongo, pending, tasks, poolq, broken, fetching, faults>>
    /\ UNCHANGED <<evars, mvars>>

----------------------------------------------------------------------------
(* upload_pdf, up to `await file.read()` *)

UploadReceive(r, max) ==
    /\ Len(tasks) + BagCardinality(pending) < max
    /\ IF ~IsPdfName(r.filename)
       THEN /\ last' = [op |-> "submit", job |-> r.job, code |-> 400,
                        detail |-> "Only PDF files are accepted"]
            /\ pending' = pending
       ELSE IF r.job = NoId
       THEN /\ last' = [op |-> "submit", job |-> r.job, code |-> 200,
                        detail |-> "document_id is required"]
            /\ pending' = pending
       ELSE /\ pending' = pending (+) SetToBag({r})
            /\ Quiet
    /\ UNCHANGED <<doc, idx, mongo, tasks, poolq, broken, fetching, faults>>
    /\ UNCHANGED <<evars, mvars>>

(* upload_pdf, from the return of file.read() to the response *)
UploadBody(r, existsOk, getOk, failAt) ==
    /\ BagIn(r, pending)
    /\ pending' = pending (-) SetToBag({r})
    /\ LET document_hash == Sha256(r.bytes)
           exists == check_document_exists_by_id(doc, r.job, existsOk)
           status_data == get_document_status(doc, r.job, getOk)
       IN  IF exists /\ status_data # NoStatus
           THEN /\ last' = [op |-> "submit", job |-> r.job, code |-> 200,
                            status |-> status_data.status]
                /\ Raise(0)
                /\ UNCHANGED <<doc, idx, tasks>>
           ELSE LET u == update_document_status(doc, idx, r.job,
                             QueuedData(document_hash, r.filename), failAt)
                IN  /\ Raise(One(~existsOk) + One(exists /\ ~getOk)
                             + One(failAt # 0))
                    /\ doc' = u.doc
                    /\ idx' = u.idx
                    /\ IF UpdateRaises(u)
                       THEN /\ tasks' = tasks
                            /\ last' = [op |-> "submit", job |-> r.job,
                                        code |-> 500, detail |-> "error"]
                       ELSE /\ tasks' = Append(tasks,
                                   NewTask(r.job, r.bytes, document_hash))
                            /\ last' = [op |-> "submit", job |-> r.job,
                                        code |-> 200, status |-> "ok"]
    /\ UNCHANGED <<mongo, poolq, broken, fetching>>
    /\ UNCHANGED <<evars, mvars>>

----------------------------------------------------------------------------
(* process_pdf_async *)

(* the `except Exception` handler: a best-effort write of failed; n calls  *)
(* of the step have raised before it                                       *)
ExceptMut(d, x, i, err, n) ==
    /\ Raise(n)
    /\ doc' = d
    /\ idx' = x
    /\ tasks' = [tasks EXCEPT ![i] = Done(tasks[i])]
Except(d, x, i, err, n) ==
    \E failAt \in 0..2 :
       LET t == tasks[i]
           u == update_document_status(d, x, t.job, FailedData(t.hash, err),
                                       failAt)
       IN  /\ Raise(n + One(failAt # 0))
           /\ doc' = u.doc
           /\ idx' = u.idx
           /\ tasks' = [tasks EXCEPT ![i] = Done(Wrote(t, u, "failed"))]

(* from the start of the coroutine to `await loop.run_in_executor(...)` *)
Start(i, failAt) ==
    /\ tasks[i].pc = "created"
    /\ LET t == tasks[i]
           u == update_document_status(doc, idx, t.job,
                                       ProcessingData(t.hash), failAt)
       IN  IF UpdateRaises(u)
           THEN /\ Except(u.doc, u.idx, i, RedisError, One(failAt # 0))
                /\ poolq' = poolq
           ELSE IF broken
           THEN /\ Except(u.doc, u.idx, i, PoolError, One(failAt # 0))
                /\ poolq' = poolq
           ELSE /\ Raise(One(failAt # 0))
                /\ doc' = u.doc
                /\ idx' = u.idx
                /\ tasks' = [tasks EXCEPT ![i].pc = "pooled"]
                /\ poolq' = Append(poolq, i)
    /\ Quiet
    /\ UNCHANGED <<mongo, pending, broken, fetching>>
    /\ UNCHANGED <<evars, mvars>>

(* a free worker of process_executor takes the oldest work item *)
PoolPickMut ==
    /\ ~broken
    /\ poolq # << >>
    /\ tasks' = [tasks EXCEPT ![Head(poolq)].pc = "running"]
    /\ poolq' = Tail(poolq)
    /\ Quiet
    /\ UNCHANGED <<doc, idx, mongo, pending, broken, fetching, faults>>
    /\ UNCHANGED <<evars, mvars>>
PoolPick ==
    /\ ~broken
    /\ poolq # << >>
    /\ Cardinality(Running) < Capacity
    /\ tasks' = [tasks EXCEPT ![Head(poolq)].pc = "running"]
    /\ poolq' = Tail(poolq)
    /\ Quiet
    /\ UNCHANGED <<doc, idx, mongo, pending, broken, fetching, faults>>
    /\ UNCHANGED <<evars, mvars>>

(* process_pdf_sync returns: the engine's text, or the engine's error *)
AnalyseMut(i, out) ==
    /\ tasks[i].pc = "running"
    /\ tasks' = [tasks EXCEPT ![i].pc = "analysed", ![i].out = out]
    /\ broken' = (broken \/ out.status = "failed")
    /\ Quiet
    /\ UNCHANGED <<doc, idx, mongo, pending, poolq, fetching, faults>>
    /\ UNCHANGED <<evars, mvars>>
Analyse(i, out) ==
    /\ tasks[i].pc = "running"
    /\ tasks' = [tasks EXCEPT ![i].pc = "analysed", ![i].out = out]
    /\ Quiet
    /\ UNCHANGED <<doc, idx, mongo, pending, poolq, broken, fetching, faults>>
    /\ UNCHANGED <<evars, mvars>>

(* a worker process dies: the executor is broken for good, every future    *)
(* it holds fails with BrokenProcessPool                                   *)
WorkerCrash ==
    /\ ~broken
    /\ Running # {}
    /\ broken' = TRUE
    /\ tasks' = [i \in TaskIds |->
                   IF tasks[i].pc \in {"pooled", "running"}
                   THEN [tasks[i] EXCEPT !.pc = "analysed", !.out = Raised]
                   ELSE tasks[i]]
    /\ poolq' = << >>
    /\ Quiet
    /\ UNCHANGED <<doc, idx, mongo, pending, fetching, faults>>
    /\ UNCHANGED <<evars, mvars>>

(* the coroutine resumes with the outcome of the pool *)
Resume(i, failAt) ==
    /\ tasks[i].pc = "analysed"
    /\ LET t == tasks[i] IN
       CASE t.out.status = "raised" ->
              /\ failAt = 0
              /\ Except(doc, idx, i, t.out.error, 0)
         [] t.out.status = "completed" ->
              /\ failAt = 0
              /\ Raise(0)
              /\ tasks' = [tasks EXCEPT ![i].pc = "saving"]
              /\ UNCHANGED <<doc, idx>>
         [] OTHER ->
              LET u == update_document_status(doc, idx, t.job,
                              FailedData(t.hash, t.out.error), failAt)
              IN  IF UpdateRaises(u)
                  THEN Except(u.doc, u.idx, i, RedisError, One(failAt # 0))
                  ELSE /\ Raise(One(failAt # 0))
                       /\ doc' = u.doc
                       /\ idx' = u.idx
                       /\ tasks' = [tasks EXCEPT ![i] =
                              [Wrote(t, u, "failed") EXCEPT !.pc = "erroring"]]
    /\ Quiet
    /\ UNCHANGED <<mongo, pending, poolq, broken, fetching>>
    /\ UNCHANGED <<evars, mvars>>

(* save_results, run by a thread of thread_executor; failAt: 1 the Redis   *)
(* read raises, 2 update_one raises, 3 the Redis write raises              *)
SaveResults(i, failAt) ==
    /\ tasks[i].pc = "saving"
    /\ Raise(One(failAt # 0))
    /\ LET t == tasks[i]
           text == t.out.result
       IN  IF t.out.status = "completed" /\ failAt \notin {1, 2}
           THEN LET u == update_document_status(doc, idx, t.job,
                             PreviewData(text), IF failAt = 3 THEN 1 ELSE 0)
                IN  /\ mongo' = Upsert(mongo, t.job, MongoDoc(t.job, text))
                    /\ doc' = u.doc
                    /\ idx' = u.idx
                    /\ tasks' = [tasks EXCEPT ![i] =
                           [Wrote(t, u, "completed") EXCEPT !.pc = "saved",
                                                            !.upsert = "ok"]]
           ELSE /\ tasks' = [tasks EXCEPT ![i].pc = "saved",
                                          ![i].upsert = IF failAt = 2
                                                        THEN "raised" ELSE "none"]
                /\ UNCHANGED <<doc, idx, mongo>>
    /\ Quiet
    /\ UNCHANGED <<pending, poolq, broken, fetching>>
    /\ UNCHANGED <<evars, mvars>>

(* the coroutine resumes after save_results and stores completed *)
Finish(i, failAt) ==
    /\ tasks[i].pc = "saved"
    /\ LET t == tasks[i]
           u == update_document_status(doc, idx, t.job,
                       CompletedData(t.hash, t.out.result), failAt)
       IN  IF UpdateRaises(u)
           THEN Except(u.doc, u.idx, i, RedisError, One(failAt # 0))
           ELSE /\ Raise(One(failAt # 0))
                /\ doc' = u.doc
                /\ idx' = u.idx
                /\ tasks' = [tasks EXCEPT ![i] = Done(Wrote(t, u, "completed"))]
    /\ Quiet
    /\ UNCHANGED <<mongo, pending, poolq, broken, fetching>>
    /\ UNCHANGED <<evars, mvars>>

(* save_error, run by a thread of thread_executor, writes a file of its    *)
(* own and no store; then the coroutine returns                            *)
SaveErrorMut(i) ==
    /\ tasks[i].pc = "erroring"
    /\ tasks' = [tasks EXCEPT ![i] = Done(tasks[i])]
    /\ mongo' = Upsert(mongo, tasks[i].job, MongoDoc(tasks[i].job, << >>))
    /\ Quiet
    /\ UNCHANGED <<doc, idx, pending, poolq, broken, fetching, faults>>
    /\ UNCHANGED <<evars, mvars>>
SaveError(i) ==
    /\ tasks[i].pc = "erroring"
    /\ tasks' = [tasks EXCEPT ![i] = Done(tasks[i])]
    /\ Quiet
    /\ UNCHANGED <<doc, idx, mongo, pending, poolq, broken, fetching, faults>>
    /\ UNCHANGED <<evars, mvars>>

----------------------------------------------------------------------------
(* check_processing_status *)

PeekStatusMut(status_data) == status_data.status
PeekStatus(status_data) ==
    IF status_data.status = "completed" THEN "completed"
    ELSE IF status_data.status = "failed" THEN "error"
    ELSE "processing"

(* the store calls of one check_processing_status: the redis_client.get of *)
(* get_document_status                                                     *)
PeekCallsMut == <<"redis.get", "mongo.find_one">>
PeekCalls == <<"redis.get">>

(* the response built from what get_document_status returned *)
PeekAnswer(j, status_data) ==
    IF status_data # NoStatus
    THEN [op |-> "peek", job |-> j, code |-> 200,
          status |-> PeekStatus(status_data), calls |-> PeekCalls]
    ELSE [op |-> "peek", job |-> j, code |-> 404, status |-> "unknown",
          error |-> "No record found for document ID", calls |-> PeekCalls]

Peek(j, ok) ==
    /\ Raise(One(~ok))
    /\ last' = PeekAnswer(j, get_document_status(doc, j, ok))
    /\ UNCHANGED <<doc, idx, mongo, pending, tasks, poolq, broken, fetching>>
    /\ UNCHANGED <<evars, mvars>>

----------------------------------------------------------------------------
(* get_processing_result *)

(* `status_data and status_data.get('status') != 'completed'` *)
InProgressMut(status_data) ==
    status_data # NoStatus /\ status_data.status = "queued"
InProgress(status_data) ==
    status_data # NoStatus /\ status_data.status # "completed"

(* from the Redis read to `await loop.run_in_executor(...)` *)
FetchStart(j, ok) ==
    /\ fetching = {}
    /\ Raise(One(~ok))
    /\ LET status_data == IF Exists(doc, j) THEN doc[j].v ELSE NoStatus
       IN  IF ~ok
           THEN /\ last' = [op |-> "fetch", job |-> j, code |-> 500,
                            seen |-> "error"]
                /\ fetching' = fetching
           ELSE IF InProgress(status_data)
           THEN /\ last' = [op |-> "fetch", job |-> j, code |-> 200,
                            seen |-> status_data.status,
                            status |-> status_data.status,
                            message |-> <<"Document processing status: ",
                                          status_data.status>>]
                /\ fetching' = fetching
           ELSE /\ fetching' = {[job |-> j, seen |-> status_data.status]}
                /\ Quiet
    /\ UNCHANGED <<doc, idx, mongo, pending, tasks, poolq, broken>>
    /\ UNCHANGED <<evars, mvars>>

(* the response built from what find_one returned; seen is the status that  *)
(* the Redis read of the call had found                                    *)
FetchAnswer(j, seen, coll, ok) ==
    IF ~ok
    THEN [op |-> "fetch", job |-> j, code |-> 500, seen |-> seen]
    ELSE IF Exists(coll, j)
    THEN [op |-> "fetch", job |-> j, code |-> 200, seen |-> seen,
          status |-> "completed", text |-> coll[j].combined_text]
    ELSE [op |-> "fetch", job |-> j, code |-> 404, seen |-> seen]

(* find_one returns and the response is built *)
FetchFinishMut(f, ok) ==
    /\ f \in fetching
    /\ fetching' = fetching \ {f}
    /\ Raise(One(~ok))
    /\ last' = FetchAnswer(f.job, f.seen, mongo, ok)
    /\ doc' = IF ok /\ Exists(mongo, f.job)
              THEN Setex(doc, f.job, TTL, [status |-> "completed"])
              ELSE doc
    /\ UNCHANGED <<idx, mongo, pending, tasks, poolq, broken>>
    /\ UNCHANGED <<evars, mvars>>
FetchFinish(f, ok) ==
    /\ f \in fetching
    /\ fetching' = fetching \ {f}
    /\ Raise(One(~ok))
    /\ last' = FetchAnswer(f.job, f.seen, mongo, ok)
    /\ UNCHANGED <<doc, idx, mongo, pending, tasks, poolq, broken>>
    /\ UNCHANGED <<evars, mvars>>

----------------------------------------------------------------------------

(* uploads and the background *)
Orchestrate ==
    \/ Tick
    \/ \E r \in BagToSet(pending), existsOk \in BOOLEAN, getOk \in BOOLEAN,
          failAt \in 0..2 : UploadBody(r, existsOk, getOk, failAt)
    \/ \E i \in TaskIds, failAt \in 0..2 : Start(i, failAt)
    \/ PoolPick
    \/ \E i \in TaskIds, out \in Outcomes : Analyse(i, out)
    \/ WorkerCrash
    \/ \E i \in TaskIds, failAt \in 0..2 : Resume(i, failAt)
    \/ \E i \in TaskIds, failAt \in 0..3 : SaveResults(i, failAt)
    \/ \E i \in TaskIds, failAt \in 0..2 : Finish(i, failAt)
    \/ \E i \in TaskIds : SaveError(i)

(* the read path *)
Query ==
    \/ \E j \in QueryJobs, ok \in BOOLEAN : Peek(j, ok)
    \/ \E j \in QueryJobs, ok \in BOOLEAN : FetchStart(j, ok)
    \/ \E f \in fetching, ok \in BOOLEAN : FetchFinish(f, ok)

Next ==
    \/ \E r \in Uploads : UploadReceive(r, MaxTasks)
    \/ Orchestrate

QueryNext ==
    \/ \E r \in QueryUploads : UploadReceive(r, MaxDocTasks)
    \/ Orchestrate
    \/ Query

(* the orchestration of the uploads of all clients *)
Spec == Init /\ [][Next]_vars

(* the orchestration of one document, and the queries about it *)
QuerySpec == Init /\ [][QueryNext]_vars

(* Both stores available: no Redis or MongoDB call raises *)
UploadReturns ==
    \E r \in BagToSet(pending) : UploadBody(r, TRUE, TRUE, 0)
TaskStep ==
    /\ \/ \E i \in TaskIds : Start(i, 0)
       \/ \E i \in TaskIds : Resume(i, 0)
       \/ \E i \in TaskIds : SaveResults(i, 0)
       \/ \E i \in TaskIds : Finish(i, 0)
       \/ \E i \in TaskIds : SaveError(i)
    /\ faults' = faults
EngineReturns == \E i \in TaskIds, out \in Outcomes : Analyse(i, out)

LiveNext ==
    \/ \E r \in QueryUploads : UploadReceive(r, MaxLiveTasks)
    \/ Tick
    \/ UploadReturns
    \/ TaskStep
    \/ PoolPick
    \/ EngineReturns
    \/ WorkerCrash

(* the orchestration of one document while both stores are available: the *)
(* event loop runs every coroutine that can run, a free worker takes the   *)
(* next work item, and the engine returns from every analysis              *)
LiveSpec ==
    /\ Init /\ [][LiveNext]_vars
    /\ WF_vars(UploadReturns)
    /\ WF_vars(TaskStep)
    /\ WF_vars(PoolPick)
    /\ WF_vars(EngineReturns)

(* the uploads of one file under two document ids *)
PoolUploads ==
    {r \in Uploads : r.job \in Jobs /\ r.bytes = PdfBytes /\ IsPdfName(r.filename)}

PoolNext ==
    \/ \E r \in PoolUploads : UploadReceive(r, MaxPoolTasks)
    \/ Tick
    \/ UploadReturns
    \/ TaskStep
    \/ PoolPick
    \/ EngineReturns
    \/ WorkerCrash

(* two documents that share process_executor, both stores available *)
PoolSpec == Init /\ [][PoolNext]_vars

(* the uploads that upload_pdf accepts: two documents, two files *)
DigestUploads == {r \in Uploads : r.job \in Jobs /\ IsPdfName(r.filename)}

DigestNext ==
    \/ \E r \in DigestUploads : UploadReceive(r, MaxDigestTasks)
    \/ UploadReturns
    \/ TaskStep
    \/ PoolPick
    \/ EngineReturns
    \/ WorkerCrash

(* uploads of different files within the time to live of their records,  *)
(* both stores available                                                   *)
DigestSpec == Init /\ [][DigestNext]_vars

----------------------------------------------------------------------------
(* The earlier service: src/services/ocr_service/ocr_service.py *)

(* str(uuid.uuid4()): the n-th value drawn, different from all before it *)
Uuid4(n) == <<"uuid4", n>>

(* store_to_dynamodb(file_id, filename, status): put_item of an item keyed *)
(* by file_id.  No function of the module calls it.                        *)
store_to_dynamodb(tbl, file_id, filename, status) ==
    tbl \cup {[file_id |-> file_id, filename |-> filename, status |-> status]}

(* upload_pdf of /process-pdf/: the upload is copied to output/ under a    *)
(* fresh file_id, process_pdf is added to the background tasks with the    *)
(* bytes and the file name, and the file_id is returned                    *)
EarlierUpload(filename, pdf_bytes) ==
    /\ Len(background) < MaxEarlierUploads
    /\ IF ~IsPdfName(filename)
       THEN /\ reply' = [op |-> "upload", code |-> 400,
                         detail |-> "Only PDF files are accepted"]
            /\ UNCHANGED <<background, uuids, output>>
       ELSE LET file_id == Uuid4(uuids + 1)
            IN  /\ uuids' = uuids + 1
                /\ output' = output \cup
                      {[kind |-> "upload", file_id |-> file_id,
                        filename |-> filename]}
                /\ background' = Append(background,
                      [returned |-> file_id, pdf_bytes |-> pdf_bytes,
                       filename |-> filename, pc |-> "added",
                       file_id |-> << >>, status |-> "none"])
                /\ reply' = [op |-> "upload", code |-> 202,
                             file_id |-> file_id, filename |-> filename,
                             status |-> "processing"]
    /\ UNCHANGED table
    /\ UNCHANGED <<dvars, mvars>>

(* process_pdf(pdf_bytes, filename), run as a background task: it draws a  *)
(* file_id of its own, and when the analysis raises another one for the    *)
(* error file; it writes output/<file_id>.json or output/error_<id>.json   *)
process_pdf(i, analysed) ==
    /\ i \in 1..Len(background)
    /\ background[i].pc = "added"
    /\ LET t == background[i]
           file_id == Uuid4(uuids + 1)
           error_id == Uuid4(uuids + 2)
       IN  IF analysed
           THEN /\ uuids' = uuids + 1
                /\ output' = output \cup
                      {[kind |-> "result", file_id |-> file_id,
                        filename |-> t.filename, status |-> "completed"]}
                /\ background' = [background EXCEPT ![i] =
                      [t EXCEPT !.pc = "done", !.file_id = file_id,
                                !.status = "completed"]]
           ELSE /\ uuids' = uuids + 2
                /\ output' = output \cup
                      {[kind |-> "error", file_id |-> error_id,
                        filename |-> t.filename, status |-> "failed"]}
                /\ background' = [background EXCEPT ![i] =
                      [t EXCEPT !.pc = "done", !.file_id = error_id,
                                !.status = "failed"]]
    /\ UNCHANGED <<table, reply>>
    /\ UNCHANGED <<dvars, mvars>>

(* get_processing_status of /status/{file_id}; ok = the DynamoDB query did *)
(* not raise                                                               *)
get_processing_status(file_id, ok) ==
    /\ LET Items == {item \in table : item.file_id = file_id}
       IN  reply' =
              IF ~ok
              THEN [op |-> "status", file_id |-> file_id, code |-> 500]
              ELSE IF Items # {}
              THEN [op |-> "status", file_id |-> file_id, code |-> 200,
                    status |-> (CHOOSE item \in Items : TRUE).status]
              ELSE [op |-> "status", file_id |-> file_id, code |-> 404,
                    error |-> "No processing record found for file ID"]
    /\ UNCHANGED <<table, background, uuids, output>>
    /\ UNCHANGED <<dvars, mvars>>

EarlierFiles == {LowerPdf, UpperPdf, TextFile}

EarlierNext ==
    \/ \E f \in EarlierFiles : EarlierUpload(f, PdfBytes)
    \/ \E i \in 1..Len(background), analysed \in BOOLEAN : process_pdf(i, analysed)
    \/ \E n \in 1..uuids, ok \in BOOLEAN : get_processing_status(Uuid4(n), ok)

EarlierSpec == Init /\ [][EarlierNext]_vars

----------------------------------------------------------------------------
(* The management service: src/services/manage_service/app.py *)

(* an optional argument or header: None, or the value given *)
None == << >>
Some(x) == <<x>>

StartsWith(str, prefix) ==
    /\ Len(str) >= Len(prefix)
    /\ SubSeq(str, 1, Len(prefix)) = prefix

PdfSignature == <<37, 80, 68, 70>>     \* b'%PDF'
PdfDocument == <<37, 80, 68, 70, 45>>  \* b'%PDF-'
ZipBytes == <<80, 75, 3, 4>>           \* b'PK\x03\x04'
CutBytes == <<37, 80>>                 \* b'%P'

UploadedPdf == <<"u", "p", "l", "o", "a", "d", "e", "d", ".", "p", "d", "f">>

(* base64 text and base64.b64decode *)
B64(b) == <<"b64", b>>
b64decode(text) == text[2]

(* content types, as the tokens of the header value *)
ApplicationPdf == <<"application/pdf">>
Multipart == <<"multipart/form-data">>

(* app.current_request.json_body: None, or a dict *)
NoJson == [json_body |-> "None"]
JsonBodies ==
    {NoJson, [note |-> "x"], [file |-> [filename |-> LowerPdf]]}
        \cup {[file |-> [content |-> B64(b), filename |-> LowerPdf]] :
                 b \in {EmptyBytes, ZipBytes, PdfDocument}}

(* the requests to POST /upload *)
ManageRequests ==
    {[content_type |-> ApplicationPdf, raw_body |-> b, x_file_name |-> n,
      json_body |-> NoJson] :
        b \in {EmptyBytes, CutBytes, ZipBytes, PdfBytes},
        n \in {None, Some(UpperPdf)}}
    \cup {[content_type |-> Multipart \o <<"; boundary=x">>,
           raw_body |-> ZipBytes, x_file_name |-> None, json_body |-> j] :
             j \in JsonBodies}
    \cup {[content_type |-> <<"text/plain">>, raw_body |-> PdfBytes,
           x_file_name |-> None, json_body |-> NoJson]}

BadRequestError(message) ==
    [op |-> "upload", code |-> 400, error |-> "BadRequestError",
     message |-> message]
ChaliceViewError ==
    [op |-> "upload", code |-> 500, error |-> "ChaliceViewError"]
NoError == [op |-> "none"]

(* verify_pdf_file(file_key, file_content): the error it raises, if any *)
verify_pdf_fileMut(file_key, file_content) ==
    IF file_key # None /\ ~IsPdfName(file_key[1])
    THEN BadRequestError("File must be a PDF")
    ELSE NoError
verify_pdf_file(file_key, file_content) ==
    IF file_key # None /\ ~IsPdfName(file_key[1])
    THEN BadRequestError("File must be a PDF")
    ELSE IF file_content # None /\ ~StartsWith(file_content[1], PdfSignature)
    THEN BadRequestError("Invalid PDF file")
    ELSE NoError

(* s3_client.put_object(Bucket, Key, Body) *)
put_object(bkt, key, body) ==
    [k \in DOMAIN bkt \cup {key} |-> IF k = key THEN body ELSE bkt[k]]

(* upload_and_process, from the content type to file_content and           *)
(* file_name: the error raised, or the two values                          *)
ReadUpload(req) ==
    IF StartsWith(req.content_type, ApplicationPdf)
    THEN [error |-> NoError, file_content |-> req.raw_body,
          file_name |-> IF req.x_file_name = None THEN UploadedPdf
                        ELSE req.x_file_name[1]]
    ELSE IF StartsWith(req.content_type, Multipart)
    THEN LET form_data == req.json_body
         IN  IF form_data = NoJson
             THEN [error |-> ChaliceViewError]
             ELSE IF "file" \notin DOMAIN form_data
             THEN [error |-> BadRequestError("Missing required field: file")]
             ELSE IF {"content", "filename"} \subseteq DOMAIN form_data.file
             THEN [error |-> NoError,
                   file_content |-> b64decode(form_data.file.content),
                   file_name |-> form_data.file.filename]
             ELSE [error |-> BadRequestError("Invalid file format in multipart form")]
    ELSE [error |-> BadRequestError("Unsupported content-type")]

(* upload_and_process up to the return of put_object; putOk = put_object   *)
(* did not raise                                                           *)
upload_and_process(req, putOk) ==
    /\ BagCardinality(requests) < MaxManageUploads
    /\ LET read == ReadUpload(req)
           checked == IF read.error # NoError THEN read.error
                      ELSE IF read.file_content = EmptyBytes
                      THEN BadRequestError("Empty file content")
                      ELSE verify_pdf_file(None, Some(read.file_content))
       IN  IF checked # NoError
           THEN /\ response' = checked
                /\ UNCHANGED <<bucket, requests>>
           ELSE IF ~putOk
           THEN /\ response' = ChaliceViewError
                /\ UNCHANGED <<bucket, requests>>
           ELSE LET file_key == <<"uploads/", read.file_name>>
                IN  /\ bucket' = put_object(bucket, file_key, read.file_content)
                    /\ requests' = requests (+) SetToBag({file_key})
                    /\ response' = NoCall
    /\ UNCHANGED <<dvars, evars>>

(* os.path.basename(pdf_file_name).split(".")[0] *)
NameWithoutSuffix(name) ==
    LET dots == {k \in 1..Len(name) : name[k] = "."}
    IN  IF dots = {} THEN name
        ELSE SubSeq(name, 1, (CHOOSE k \in dots : \A m \in dots : k <= m) - 1)

(* upload_and_process from process_pdf(s3_uri) to the response: process_pdf *)
(* reads the object back, analyses it and writes the Markdown and JSON      *)
(* results under the output prefix; ok = it did not raise                   *)
ManageProcessPdf(file_key, ok) ==
    /\ BagIn(file_key, requests)
    /\ requests' = requests (-) SetToBag({file_key})
    /\ IF ok
       THEN /\ bucket' = put_object(bucket,
                            <<"pdf-extract-output/", NameWithoutSuffix(file_key[2])>>,
                            <<"results of", bucket[file_key]>>)
            /\ response' = [op |-> "upload", code |-> 200, status |-> "success",
                            file_key |-> file_key]
       ELSE /\ bucket' = bucket
            /\ response' = ChaliceViewError
    /\ UNCHANGED <<dvars, evars>>

ManageNext ==
    \/ \E req \in ManageRequests, putOk \in BOOLEAN : upload_and_process(req, putOk)
    \/ \E file_key \in BagToSet(requests), ok \in BOOLEAN : ManageProcessPdf(file_key, ok)

ManageSpec == Init /\ [][ManageNext]_vars

----------------------------------------------------------------------------
(* Properties *)

Status(d, j) == IF j \in DOMAIN d THEN d[j].v.status ELSE "none"

(* the step is the body of upload_pdf for the request r *)
UploadStep(r) == BagIn(r, pending) /\ pending' = pending (-) SetToBag({r})

(* the step stores a record for document j *)
Stores(j) == j \in DOMAIN doc' /\ (j \notin DOMAIN doc \/ doc'[j] # doc[j])

(* C1: whenever the status record of a document says completed, MongoDB    *)
(* holds a record of that document                                         *)
C1_CompletedHasResult ==
    \A j \in DOMAIN doc : doc[j].v.status = "completed" => j \in DOMAIN mongo

(* C2: a task whose update_one raised never stores completed *)
C2_NoCompletedAfterFailedUpsert ==
    \A i \in TaskIds : tasks[i].upsert = "raised" => tasks[i].term # "completed"

(* C3: an upload for a document that has a status record creates no task,  *)
(* writes no store and answers with the stored status                      *)
C3_DuplicateSubmitIsNoOp ==
    [][\A r \in BagToSet(pending) :
          UploadStep(r) /\ r.job \in DOMAIN doc =>
              /\ tasks' = tasks
              /\ doc' = doc /\ idx' = idx /\ mongo' = mongo
              /\ last' = [op |-> "submit", job |-> r.job, code |-> 200,
                          status |-> doc[r.job].v.status]]_vars

(* a task of document j is dispatched and has stored no terminal status *)
InFlight(j) ==
    \E i \in TasksOf(j) : tasks[i].pc # "done" /\ tasks[i].term = "none"

(* C4: an upload for a document whose first task is still in flight        *)
(* creates no second task and answers queued or processing                 *)
C4_OneTaskPerInFlightJob ==
    [][\A r \in BagToSet(pending) :
          UploadStep(r) /\ InFlight(r.job) =>
              /\ Len(tasks') = Len(tasks)
              /\ last'.op = "submit" /\ last'.code = 200
              /\ last'.status \in {"queued", "processing"}]_vars

(* C5: an upload for a document whose record is completed or failed leaves *)
(* the record and the stored result as they are                            *)
C5_TerminalNotChangedBySubmit ==
    [][\A r \in BagToSet(pending) :
          UploadStep(r) /\ Status(doc, r.job) \in {"completed", "failed"} =>
              /\ r.job \in DOMAIN doc' /\ doc'[r.job].v = doc[r.job].v
              /\ mongo' = mongo]_vars

(* C6: an upload of empty bytes is answered with an error, stores no       *)
(* record and creates no task                                              *)
C6_EmptyUploadRejected ==
    [][\A r \in BagToSet(pending) :
          UploadStep(r) /\ r.bytes = EmptyBytes =>
              /\ last'.op = "submit" /\ last'.code = 400
              /\ doc' = doc /\ idx' = idx
              /\ tasks' = tasks]_vars

(* the order of the statuses of one record; a record that expires leaves   *)
(* none                                                                    *)
StatusOrder ==
    {<<"none", "queued">>, <<"queued", "processing">>,
     <<"processing", "completed">>, <<"processing", "failed">>}

(* C7: the status stored for a document changes only from none to queued,  *)
(* from queued to processing and from processing to completed or failed    *)
C7_StatusOrder ==
    [][\A j \in Jobs :
          Stores(j) /\ Status(doc', j) # Status(doc, j) =>
              <<Status(doc, j), Status(doc', j)>> \in StatusOrder]_vars

(* C8: a task that has stored completed or failed stores no record of      *)
(* another status afterwards                                               *)
C8_TerminalWriteIsFinal ==
    [][\A i \in TaskIds :
          (tasks[i].term # "none" /\ tasks'[i] # tasks[i]
             /\ Stores(tasks[i].job)) =>
              Status(doc', tasks[i].job) = tasks[i].term]_vars

(* a task has stored a terminal status and then stored a record again *)
C8_Witness ==
    \E i \in TaskIds : tasks[i].pc = "done" /\ tasks[i].tw >= 2

(* C9: a task is created only with the queued record of its document       *)
(* stored                                                                  *)
C9_QueuedBeforeDispatch ==
    [][Len(tasks') > Len(tasks) =>
          Status(doc', tasks'[Len(tasks')].job) = "queued"]_vars

(* C10 as claimed: a text is returned only when the status read was        *)
(* completed; for any other status read, absent included, no text          *)
C10_TextOnlyIfCompleted ==
    (last.op = "fetch" /\ "text" \in DOMAIN last) => last.seen = "completed"

(* C10 as amended: a text is returned only when the status read was        *)
(* completed or there was no status record; when the status read was       *)
(* queued, processing or failed the answer is that status, without text    *)
C10_TextOnlyIfCompletedOrAbsent ==
    last.op = "fetch" =>
        /\ "text" \in DOMAIN last => last.seen \in {"completed", "none"}
        /\ last.seen \in {"queued", "processing", "failed"} =>
              /\ "text" \notin DOMAIN last
              /\ last.code = 200 /\ last.status = last.seen

(* the text of a document without status record has been returned *)
C10_Witness ==
    last.op = "fetch" /\ "text" \in DOMAIN last /\ last.seen = "none"

(* what the client receives of an answer: seen is kept for the properties  *)
Body(answer) == [k \in DOMAIN answer \ {"seen"} |-> answer[k]]

(* C11: the answer of get_processing_result for a document whose status    *)
(* read was completed and that has no MongoDB record differs from its      *)
(* answer for a document that has no record in either store                *)
C11_InconsistentStateIsDistinct ==
    (last.op = "fetch" /\ last.seen = "completed" /\ last.code # 500
        /\ "text" \notin DOMAIN last) =>
        Body(last) # Body(FetchAnswer(last.job, "none", << >>, TRUE))

(* C12: an upload during which a Redis call raises, for a document that    *)
(* has a status record and a task in flight, leaves that record as it is   *)
(* and creates no task                                                     *)
C12_StoreErrorKeepsInFlightJob ==
    [][\A r \in BagToSet(pending) :
          (UploadStep(r) /\ faults' > faults /\ InFlight(r.job)
             /\ r.job \in DOMAIN doc) =>
              /\ r.job \in DOMAIN doc' /\ doc'[r.job] = doc[r.job]
              /\ tasks' = tasks]_vars

(* C13: a task whose write of processing raises goes to the handler that   *)
(* writes failed and ends, and has not stored completed                    *)
C13_FailedWriteEndsTask ==
    [][\A i \in TaskIds :
          (tasks[i].pc = "created" /\ tasks'[i].pc # "created"
             /\ faults' > faults) =>
              /\ tasks'[i].pc = "done"
              /\ tasks'[i].term # "completed"]_vars

(* the step is a check_processing_status whose Redis read did not raise *)
PeekStep == last'.op = "peek" /\ faults' = faults

C16_FailedFetchReturnsError ==
    (last.op = "fetch" /\ last.seen = "failed") =>
        /\ last.status = "failed"
        /\ "text" \notin DOMAIN last
        /\ "error" \in DOMAIN last
        /\ last.error \in {EngineError, PoolError, RedisError}

(* the step writes the MongoDB record of document j *)
Upserts(j) == j \in DOMAIN mongo' /\ (j \notin DOMAIN mongo \/ mongo'[j] # mongo[j])

(* C17: every MongoDB record holds, in full, the text that the engine      *)
(* returned to a task of that document; and while no store call has        *)
(* raised, a get_processing_result whose status read was completed answers *)
(* with the text of the MongoDB record of that document                    *)
C17_CompletedFetchReturnsFullText ==
    [][/\ \A j \in Jobs :
             Upserts(j) =>
                 \E i \in TasksOf(j) :
                     /\ tasks[i].pc = "saving"
                     /\ tasks[i].out.status = "completed"
                     /\ mongo'[j].document_id = j
                     /\ mongo'[j].combined_text = tasks[i].out.result
       /\ \A f \in fetching :
             (f.seen = "completed" /\ f \notin fetching' /\ faults' = 0) =>
                 /\ f.job \in DOMAIN mongo
                 /\ last' = [op |-> "fetch", job |-> f.job, code |-> 200,
                             seen |-> "completed", status |-> "completed",
                             text |-> mongo[f.job].combined_text]]_vars

(* a text longer than the preview has been returned for a completed        *)
(* document, no store call having raised                                   *)
C17_Witness ==
    /\ last.op = "fetch" /\ last.seen = "completed" /\ faults = 0
    /\ "text" \in DOMAIN last /\ last.text = LongText

(* C18: a task resuming with an error of the analysis stores no completed  *)
(* record, then or later; unless its Redis write raises, the record of its *)
(* document is failed after the step, with the message of the analysis as  *)
(* error                                                                   *)
C18_AnalysisErrorIsRecorded ==
    [][\A i \in TaskIds :
          /\ (tasks[i].pc = "analysed" /\ tasks[i].out.status # "completed"
                /\ tasks'[i] # tasks[i]) =>
                 /\ tasks'[i].pc \in {"erroring", "done"}
                 /\ tasks'[i].term # "completed"
                 /\ faults' = faults =>
                        /\ Status(doc', tasks[i].job) = "failed"
                        /\ doc'[tasks[i].job].v.error = tasks[i].out.error
          /\ tasks[i].pc = "erroring" =>
                 /\ tasks'[i].pc \in {"erroring", "done"}
                 /\ tasks'[i].term = tasks[i].term
                 /\ ~Stores(tasks[i].job) \/ tasks'[i] = tasks[i]]_vars

(* the error of the engine is stored with status failed, by a task that    *)
(* has not returned yet                                                    *)
C18_Witness ==
    \E i \in TaskIds :
        /\ tasks[i].pc = "erroring" /\ tasks[i].term = "failed"
        /\ Status(doc, tasks[i].job) = "failed"
        /\ doc[tasks[i].job].v.error = EngineError

(* C19 as claimed: a document whose status record says failed has no       *)
(* MongoDB record                                                          *)
C19_FailedHasNoResult ==
    \A j \in DOMAIN doc : doc[j].v.status = "failed" => j \notin DOMAIN mongo

(* C19 as amended: MongoDB is written only by the save_results step of a   *)
(* task whose analysis completed, for the document of that task; a task    *)
(* that has written MongoDB stores no failed record; and no MongoDB        *)
(* record is ever removed                                                  *)
C19_FailurePathWritesNoResult ==
    [][/\ mongo' # mongo =>
             \E i \in TaskIds :
                 /\ tasks[i].pc = "saving" /\ tasks[i].out.status = "completed"
                 /\ tasks'[i].upsert = "ok"
                 /\ \A j \in Jobs : Upserts(j) => j = tasks[i].job
       /\ DOMAIN mongo \subseteq DOMAIN mongo'
       /\ \A i \in TaskIds \cap DOMAIN tasks' :
             tasks'[i].upsert = "ok" => tasks'[i].term # "failed"]_vars

(* a document is failed while MongoDB holds the record of an earlier run,  *)
(* the failed task having returned                                         *)
C19_Witness ==
    \E i \in TaskIds :
        /\ tasks[i].pc = "done" /\ tasks[i].term = "failed"
        /\ Status(doc, tasks[i].job) = "failed"
        /\ tasks[i].job \in DOMAIN mongo

(* C20: with no store call raising and fair scheduling, a document whose   *)
(* record says queued comes to have a record that says completed or        *)
(* failed; and no step removes a task, a task ending only by a step of its *)
(* own coroutine                                                           *)
C20_QueuedLeadsToTerminal ==
    /\ [][/\ Len(tasks') >= Len(tasks)
          /\ \A i \in TaskIds : tasks[i].pc = "done" \/ tasks'[i].pc # "done"
                                  \/ tasks[i].pc \in {"analysed", "saved",
                                                       "erroring", "created"}]_vars
    /\ \A j \in Jobs :
          (Status(doc, j) = "queued") ~>
              (Status(doc, j) \in {"completed", "failed"})

(* a task has returned and the record of its document is terminal *)
C20_Witness ==
    \E i \in TaskIds :
        /\ tasks[i].pc = "done" /\ faults = 0
        /\ Status(doc, tasks[i].job) \in {"completed", "failed"}

(* C21: the step of upload_pdf that creates a task is the step that        *)
(* answers; the task has then run no step of its own: it is not handed to  *)
(* the pool and the step has written no processing record                  *)
C21_SubmitAnswersBeforeProcessing ==
    [][Len(tasks') > Len(tasks) =>
          LET t == tasks'[Len(tasks')]
          IN  /\ Len(tasks') = Len(tasks) + 1
              /\ last' = [op |-> "submit", job |-> t.job, code |-> 200,
                          status |-> "ok"]
              /\ t.pc = "created" /\ t.out = NoOut /\ t.tw = 0
              /\ poolq' = poolq
              /\ Stores(t.job) => Status(doc', t.job) = "queued"]_vars

(* the upload has been answered while its task has not started and the     *)
(* record of its document says queued                                      *)
C21_Witness ==
    /\ last.op = "submit" /\ last.code = 200 /\ last.status = "ok"
    /\ \E i \in TasksOf(last.job) :
          tasks[i].pc = "created" /\ Status(doc, last.job) = "queued"

(* C22: a status record that says completed holds a preview of at most     *)
(* PreviewLimit characters and the ellipsis, and not the whole text        *)
C22_CompletedRecordHoldsPreviewOnly ==
    \A j \in DOMAIN doc :
        doc[j].v.status = "completed" =>
            /\ "result" \notin DOMAIN doc[j].v
            /\ "result_preview" \in DOMAIN doc[j].v
            /\ Len(doc[j].v.result_preview) <= PreviewLimit + Len(Ellipsis)

C24_PoolBoundsRunningTasks ==
    /\ [](Cardinality(Running) <= Capacity)
    /\ [][/\ \A r \in BagToSet(pending) :
                (UploadStep(r) /\ r.job \notin DOMAIN doc) =>
                    /\ Len(tasks') = Len(tasks) + 1
                    /\ last'.code = 200 /\ last'.status = "ok"
          /\ \A i \in TaskIds :
                (tasks[i].pc = "created" /\ tasks'[i].pc = "pooled") =>
                    poolq' = Append(poolq, i)
          /\ \A i \in TaskIds :
                (tasks[i].pc = "pooled" /\ tasks'[i].pc = "running") =>
                    /\ poolq # << >> /\ i = Head(poolq)
                    /\ Cardinality(Running) < Capacity]_vars

(* every worker is busy and a task, accepted and handed to the pool, waits *)
(* in its queue                                                            *)
C24_Witness ==
    /\ Cardinality(Running) = Capacity
    /\ poolq # << >>
    /\ \A i \in TaskIds : tasks[i].pc \in {"running", "pooled"}

(* the place of a task in process_pdf_async *)
Rank(pc) ==
    CASE pc = "created" -> 0 [] pc = "pooled" -> 1 [] pc = "running" -> 2
      [] pc = "analysed" -> 3 [] pc \in {"saving", "erroring"} -> 4
      [] pc = "saved" -> 5 [] pc = "done" -> 6

(* C25: a task goes through process_pdf_async once, forwards: it is handed *)
(* to the pool and analysed at most once, and after an error of the        *)
(* analysis it only returns; tasks are created by uploads only             *)
C25_AnalysedAtMostOnce ==
    [][/\ \A i \in TaskIds :
             /\ i \in DOMAIN tasks'
             /\ tasks'[i].job = tasks[i].job
             /\ tasks'[i].pc # tasks[i].pc =>
                    Rank(tasks'[i].pc) > Rank(tasks[i].pc)
             /\ tasks[i].pc = "erroring" => tasks'[i].pc \in {"erroring", "done"}
       /\ Len(tasks') > Len(tasks) =>
             \E r \in BagToSet(pending) : UploadStep(r)]_vars

(* every task has returned, one of them after an error of the analysis,    *)
(* and the pool has no work                                                *)
C25_Witness ==
    /\ tasks # << >> /\ poolq = << >>
    /\ \A i \in TaskIds : tasks[i].pc = "done"
    /\ \E i \in TaskIds : tasks[i].term = "failed"

(* document k has the same record in both stores *)
Same(store, other, k) ==
    /\ (k \in DOMAIN store) = (k \in DOMAIN other)
    /\ k \in DOMAIN store => other[k] = store[k]

(* the documents of the uploads and tasks that take the step *)
Movers ==
    {r.job : r \in {q \in BagToSet(pending) : UploadStep(q)}}
        \cup {tasks[i].job : i \in {k \in TaskIds : tasks'[k] # tasks[k]}}

(* C26: an upload for a document without status record gets its task, and *)
(* its queued record unless the Redis write raises, also when the index    *)
(* holds its digest for another document; a                                *)
(* step of an upload or a task changes the status record and the MongoDB   *)
(* record of no other document                                             *)
C26_SameBytesJobsAreIndependent ==
    [][/\ \A r \in BagToSet(pending) :
             (UploadStep(r) /\ r.job \notin DOMAIN doc) =>
                 /\ faults' = faults => Status(doc', r.job) = "queued"
                 /\ Len(tasks') = Len(tasks) + 1
                 /\ tasks'[Len(tasks')].job = r.job
       /\ (tasks' # tasks \/ pending' # pending) =>
             \A k \in Jobs \ Movers :
                 Same(doc, doc', k) /\ Same(mongo, mongo', k)]_vars

(* two documents of the same bytes are both completed, each with its own   *)
(* MongoDB record                                                          *)
C26_Witness ==
    \E i, k \in TaskIds :
        /\ tasks[i].job # tasks[k].job /\ tasks[i].bytes = tasks[k].bytes
        /\ \A n \in {i, k} :
              /\ tasks[n].term = "completed"
              /\ Status(doc, tasks[n].job) = "completed"
              /\ tasks[n].job \in DOMAIN mongo
              /\ mongo[tasks[n].job].document_id = tasks[n].job

(* C27: when the Redis read of check_processing_status or of               *)
(* get_processing_result raises for a document that has a status record,   *)
(* the answer is not completed and is not the answer given for a document  *)
(* without record                                                          *)
C27_ReadErrorIsNotNotFound ==
    [][/\ (last'.op = "peek" /\ faults' > faults
             /\ last'.job \in DOMAIN doc) =>
                /\ last'.status # "completed"
                /\ last' # PeekAnswer(last'.job, NoStatus)
       /\ (last'.op = "fetch" /\ last'.seen = "error") =>
                /\ "status" \notin DOMAIN last'
                /\ Body(last') # Body(FetchAnswer(last'.job, "none", << >>, TRUE))]_vars

(* the fields of a record: every field is there and holds the value given *)
Holds(rec, fields) == DOMAIN rec = DOMAIN fields /\ \A f \in DOMAIN rec : rec[f] = fields[f]

(* rec is a record that task t may write, each field of it coming from the *)
(* data of t                                                               *)
OwnRecord(rec, t) ==
    \/ Holds(rec, [status |-> "processing", document_hash |-> t.hash])
    \/ \E e \in {EngineError, PoolError, RedisError} :
          Holds(rec, [status |-> "failed", document_hash |-> t.hash, error |-> e])
    \/ /\ t.out.status = "completed"
       /\ \/ Holds(rec, [status |-> "completed", document_hash |-> t.hash,
                          result |-> t.out.result])
          \/ /\ DOMAIN rec = {"status", "result_preview"}
             /\ rec.status = "completed"
             /\ rec.result_preview = Preview(t.out.result)

(* C28: every status record stored is a whole record built from the data   *)
(* of the upload or the task that stores it (document id, digest, file     *)
(* name, outcome), with a fresh time to live                               *)
C28_WritesAreWholeRecords ==
    [][\A j \in Jobs :
          Stores(j) =>
              /\ doc'[j].ttl = TTL
              /\ \/ \E r \in BagToSet(pending) :
                       /\ UploadStep(r) /\ r.job = j
                       /\ Holds(doc'[j].v,
                                [status |-> "queued", filename |-> r.filename,
                                 document_hash |-> Sha256(r.bytes)])
                 \/ \E i \in TasksOf(j) :
                       /\ tasks'[i] # tasks[i]
                       /\ OwnRecord(doc'[j].v, tasks[i])]_vars

(* save_results, which reads the status record first, has stored the       *)
(* preview over a processing record                                        *)
C28_Witness ==
    \E i \in TaskIds :
        /\ tasks[i].pc = "saved" /\ tasks[i].upsert = "ok" /\ tasks[i].tw = 1
        /\ Status(doc, tasks[i].job) = "completed"
        /\ "result_preview" \in DOMAIN doc[tasks[i].job].v

(* C29: a status record stored with a document_hash field leaves the index *)
(* entry of that digest holding the document id of the record, with the    *)
(* time to live of the record; a status record stored without that field   *)
(* leaves the index as it was                                              *)
C29_HashIndexFollowsRecord ==
    [][\A j \in Jobs :
          Stores(j) =>
              IF "document_hash" \in DOMAIN doc'[j].v
              THEN LET h == doc'[j].v.document_hash
                   IN  /\ h \in DOMAIN idx'
                       /\ idx'[h] = [v |-> j, ttl |-> doc'[j].ttl]
              ELSE idx' = idx]_vars

(* the preview, a record without digest, is stored over a record with one  *)
(* and the index still holds the document id under the digest              *)
C29_Witness ==
    \E i \in TaskIds :
        /\ tasks[i].pc = "saved" /\ tasks[i].upsert = "ok"
        /\ tasks[i].job \in DOMAIN doc
        /\ "document_hash" \notin DOMAIN doc[tasks[i].job].v
        /\ tasks[i].hash \in DOMAIN idx
        /\ idx[tasks[i].hash] = [v |-> tasks[i].job, ttl |-> TTL]

(* the MongoDB records that carry document id j *)
RecordsOf(coll, j) == {k \in DOMAIN coll : coll[k].document_id = j}

(* C30: the collection holds at most one record with a given document_id;  *)
(* the update_one of a task leaves, as the record of its document, the     *)
(* record built from the text of that task whatever record was there, and  *)
(* leaves the record of every other document as it was                     *)
C30_UpsertKeepsLatestRecord ==
    /\ [](\A j \in Jobs : Cardinality(RecordsOf(mongo, j)) <= 1)
    /\ [][\A i \in TaskIds :
             (tasks[i].pc = "saving" /\ tasks'[i].upsert = "ok") =>
                 LET j == tasks[i].job
                     text == tasks[i].out.result
                 IN  /\ RecordsOf(mongo', j) = {j}
                     /\ Holds(mongo'[j],
                              [document_id |-> j, combined_text |-> text,
                               status |-> "completed",
                               word_count |-> WordCount(text),
                               character_count |-> Len(text)])
                     /\ \A k \in Jobs \ {j} : Same(mongo, mongo', k)]_vars

(* two tasks of one document, the second submitted after the status       *)
(* record expired, have both run update_one with different texts, and the  *)
(* collection holds one record, with the text of the later update_one      *)
C30_Witness ==
    \E i, k \in TaskIds :
        /\ i # k /\ tasks[i].job = tasks[k].job
        /\ tasks[i].upsert = "ok" /\ tasks[i].pc = "saved"
        /\ tasks[k].upsert = "ok" /\ tasks[k].pc = "saved"
        /\ tasks[i].out.result # tasks[k].out.result
        /\ Cardinality(RecordsOf(mongo, tasks[k].job)) = 1
        /\ mongo[tasks[k].job].combined_text = tasks[k].out.result

(* C31: the document_hash that an upload stores equals the one that any    *)
(* other upload of the same bytes was given and differs from the one that  *)
(* any upload of other bytes was given, whatever the document ids and the  *)
(* file names                                                              *)
C31_DigestFollowsBytesOnly ==
    /\ [](\A i, k \in TaskIds :
             (tasks[i].hash = tasks[k].hash) <=> (tasks[i].bytes = tasks[k].bytes))
    /\ [][\A r \in BagToSet(pending) :
             (UploadStep(r) /\ Stores(r.job)) =>
                 /\ tasks'[Len(tasks')].hash = doc'[r.job].v.document_hash
                 /\ \A i \in TaskIds :
                       (tasks[i].hash = doc'[r.job].v.document_hash)
                           <=> (tasks[i].bytes = r.bytes)]_vars

(* two uploads of different bytes are queued with different digests *)
C31_Witness ==
    \E i, k \in TaskIds :
        /\ tasks[i].bytes # tasks[k].bytes
        /\ \A n \in {i, k} :
              /\ Status(doc, tasks[n].job) = "queued"
              /\ doc[tasks[n].job].v.document_hash = tasks[n].hash
        /\ doc[tasks[i].job].v.document_hash # doc[tasks[k].job].v.document_hash

(* C33: every status record stored carries a document_hash, the one of an  *)
(* upload of its document                                                  *)
C33_RecordKeepsDigest ==
    \A j \in DOMAIN doc :
        /\ "document_hash" \in DOMAIN doc[j].v
        /\ \E r \in Uploads : r.job = j /\ doc[j].v.document_hash = <<"sha256", r.bytes>>

(* C34: every entry of the index names a document that has a status record *)
C34_IndexNamesStoredRecord ==
    \A h \in DOMAIN idx : idx[h].v \in DOMAIN doc

(* C35: a step of check_processing_status or of get_processing_result,     *)
(* whatever it answers and whether or not its store call raises, leaves    *)
(* every status record with its time to live, every index entry and every  *)
(* MongoDB record as it was                                                *)
C35_QueriesAreReadOnly ==
    [][(last'.op \in {"peek", "fetch"} \/ fetching' # fetching) =>
          /\ doc' = doc
          /\ idx' = idx
          /\ mongo' = mongo]_vars

(* get_processing_result has returned the text of a document whose status  *)
(* record and index entry have expired, and neither is back                *)
C35_Witness ==
    /\ last.op = "fetch" /\ last.code = 200 /\ "text" \in DOMAIN last
    /\ last.job \in DOMAIN mongo
    /\ doc = << >> /\ idx = << >>

(* C36: an upload whose file name does not end in .pdf, or whose           *)
(* document_id is empty, is answered with an error status before its bytes *)
(* are read, and stores no record, no index entry and creates no task      *)
C36_BadUploadIsRejected ==
    [][\A r \in Uploads :
          (/\ ~IsPdfName(r.filename) \/ r.job = NoId
           /\ last'.op = "submit" /\ last'.job = r.job
           /\ pending' = pending) =>
              /\ last'.code >= 400
              /\ doc' = doc /\ idx' = idx /\ tasks' = tasks]_vars

(* C32: the file_id that /process-pdf/ returned is the one under which the *)
(* background task recorded its outcome, and once that task has ended a    *)
(* /status/ query for the returned file_id whose DynamoDB query does not   *)
(* raise reports completed or failed                                       *)
C32_ReturnedIdTracksOutcome ==
    [][\A i \in 1..Len(background) :
          background[i].pc = "done" =>
              /\ background[i].file_id = background[i].returned
              /\ (/\ reply'.op = "status" /\ reply'.code # 500
                  /\ reply'.file_id = background[i].returned) =>
                     /\ reply'.code = 200
                     /\ reply'.status \in {"completed", "failed"}]_vars

(* the upload is empty, does not start with the %PDF signature, or has a   *)
(* content type that is neither application/pdf nor multipart/form-data    *)
Unacceptable(req) ==
    \/ req.content_type[1] \notin {"application/pdf", "multipart/form-data"}
    \/ /\ req.content_type[1] = "application/pdf"
       /\ req.raw_body \in {EmptyBytes, CutBytes, ZipBytes}
    \/ /\ req.content_type[1] = "multipart/form-data"
       /\ "file" \in DOMAIN req.json_body
       /\ "content" \in DOMAIN req.json_body.file
       /\ req.json_body.file.content \in {<<"b64", EmptyBytes>>, <<"b64", ZipBytes>>}

====
